---- MODULE Spec2Model ----
(***************************************************************************)
(* Model of the surgeon-site backend (src/main.py, src/schemas.py).        *)
(*                                                                         *)
(* Every HTTP handler of main.py is one action.  The state is the store    *)
(* handle `db` (fixed at start-up), the process environment, the contents  *)
(* of the document store, and the response of the last request.            *)
(*                                                                         *)
(* Text is ASCII here: the Russian labels of main.py are transliterated.   *)
(* Python None is the value None below; a JSON body or a stored document   *)
(* is a record whose DOMAIN is the set of keys it carries.  A response is  *)
(* [op, status, ...]: a JSON object is its field body, a JSON array its    *)
(* field items; the request it answers is kept beside it.                  *)
(***************************************************************************)
EXTENDS Integers, Sequences, FiniteSets, TLC

VARIABLES
    db,                \* the store handle of database.py: None or connected
    environ,           \* DATABASE_URL and DATABASE_NAME of the process
    store,             \* the documents of each collection, in insertion order
    otherCollections,  \* how many collections the database has besides these
    response,          \* the last request and the response it was given
    calls,             \* the store calls the last request made
    created            \* the payloads Create testimonial has acknowledged

vars == <<db, environ, store, otherCollections, response, calls, created>>

(***************************************************************************)
(* Bounds of the model.                                                    *)
(***************************************************************************)
\* documents the whole store may hold before the create handlers stop firing
MaxDocs == 2
\* collections of the database other than the application's own
MaxOther == 9

(***************************************************************************)
(* Values.                                                                 *)
(***************************************************************************)
None == "None"

Min(a, b) == IF a < b THEN a ELSE b
Max(a, b) == IF a > b THEN a ELSE b

\* dict.get(key, default)
Get(d, k, default) == IF k \in DOMAIN d THEN d[k] ELSE default

\* s[:n]
Slice(s, n) == SubSeq(s, 1, Min(n, Len(s)))

\* a fixed message, kept in one piece; the text of an exception is the
\* sequence of its characters
Text(s) == <<s>>

\* the 422 body of a request that fails its schema
ValidationError == [detail |-> Text("validation error")]

(***************************************************************************)
(* Python floats (IEEE-754 binary64).                                      *)
(*                                                                         *)
(* A float needs 53-bit significands and 106-bit products, so naturals are *)
(* kept as sequences of limbs, least significant first, without leading    *)
(* zero limbs; the empty sequence is 0.                                    *)
(***************************************************************************)
LimbBits == 15
Radix    == 32768

Larger(a, b) == IF a > b THEN a ELSE b

RECURSIVE Pow10(_)
Pow10(k) == IF k <= 0 THEN 1 ELSE 10 * Pow10(k - 1)

RECURSIVE Digits(_)
Digits(n) == IF n < 10 THEN 1 ELSE 1 + Digits(n \div 10)

RECURSIVE Pow2(_)
Pow2(k) == IF k <= 0 THEN 1 ELSE 2 * Pow2(k - 1)

\* a without its leading zero limbs
Norm(a) ==
    LET top == CHOOSE i \in 0..Len(a) :
                   /\ i = 0 \/ a[i] # 0
                   /\ \A j \in (i + 1)..Len(a) : a[j] = 0
    IN  SubSeq(a, 1, top)

RECURSIVE Big(_)
Big(n) == IF n = 0 THEN <<>> ELSE <<n % Radix>> \o Big(n \div Radix)

Limb(a, i) == IF 1 <= i /\ i <= Len(a) THEN a[i] ELSE 0

\* whether a carry enters limb i of the limb sums s: a limb below overflows
\* and every limb between the two is full
Carry(s, i) ==
    \E j \in 1..(i - 1) :
        s[j] >= Radix /\ \A k \in (j + 1)..(i - 1) : s[k] = Radix - 1

\* the number whose limbs are the sums s, each below 2 * Radix
AddSums(s) ==
    Norm([i \in 1..Len(s) |-> (s[i] + IF Carry(s, i) THEN 1 ELSE 0) % Radix])

\* a + b
AddBig(a, b) ==
    AddSums([i \in 1..(Larger(Len(a), Len(b)) + 1) |-> Limb(a, i) + Limb(b, i)])

\* whether limb i of a - b borrows from above: a limb below is too small and
\* the limbs between the two are equal
Borrow(a, b, i) ==
    \E j \in 1..(i - 1) :
        a[j] < Limb(b, j) /\ \A k \in (j + 1)..(i - 1) : a[k] = Limb(b, k)

\* a - b for a >= b
SubBig(a, b) ==
    Norm([i \in 1..Len(a) |->
              (a[i] - Limb(b, i) - (IF Borrow(a, b, i) THEN 1 ELSE 0) + Radix)
                  % Radix])

\* -1, 0, 1 as a < b, a = b, a > b: decided by the length, then by the
\* highest limb where a and b differ
CmpBig(a, b) ==
    IF Len(a) < Len(b) THEN -1
    ELSE IF Len(a) > Len(b) THEN 1
    ELSE LET n == Len(a)
             d == CHOOSE d \in 0..n :
                      /\ d = n \/ a[n - d] # b[n - d]
                      /\ \A k \in (n - d + 1)..n : a[k] = b[k]
         IN  IF d = n THEN 0 ELSE IF a[n - d] < b[n - d] THEN -1 ELSE 1

\* a * Radix^n
ShiftLimbs(a, n) == IF a = <<>> THEN a ELSE [i \in 1..n |-> 0] \o a

\* a * k for a small k (k <= Radix): the low halves of the limb products
\* plus their high halves one limb up
MulSmall(a, k) ==
    AddBig(<<>> \o [i \in 1..Len(a) |-> (a[i] * k) % Radix],
           <<0>> \o [i \in 1..Len(a) |-> (a[i] * k) \div Radix])

RECURSIVE MulFrom(_, _, _)
MulFrom(a, b, j) ==
    IF j > Len(b) THEN <<>>
    ELSE AddBig(MulSmall(a, b[j]), ShiftLimbs(MulFrom(a, b, j + 1), 1))

MulBig(a, b) == MulFrom(a, b, 1)

RECURSIVE SmallBitLen(_)
SmallBitLen(n) == IF n = 0 THEN 0 ELSE 1 + SmallBitLen(n \div 2)

\* the number of bits of a
BitLen(a) ==
    IF a = <<>> THEN 0
    ELSE LimbBits * (Len(a) - 1) + SmallBitLen(a[Len(a)])

\* a * 2^k
ShiftLeft(a, k) ==
    ShiftLimbs(MulSmall(a, Pow2(k % LimbBits)), k \div LimbBits)

\* floor(a / 2^k)
ShiftRight(a, k) ==
    LET w == k \div LimbBits
        p == Pow2(k % LimbBits)
    IN  Norm([i \in 1..(Len(a) - w) |->
                  a[i + w] \div p + (Limb(a, i + w + 1) % p) * (Radix \div p)])

IsOdd(a) == a # <<>> /\ a[1] % 2 = 1

\* the number of trailing zero bits of a > 0
RECURSIVE SmallTrailingZeros(_)
SmallTrailingZeros(n) ==
    IF n % 2 = 1 THEN 0 ELSE 1 + SmallTrailingZeros(n \div 2)

TrailingZeros(a) ==
    LET first == CHOOSE i \in 1..Len(a) :
                     a[i] # 0 /\ \A j \in 1..(i - 1) : a[j] = 0
    IN  LimbBits * (first - 1) + SmallTrailingZeros(a[first])

\* bit i of a, bit 0 the lowest
Bit(a, i) == (Limb(a, i \div LimbBits + 1) \div Pow2(i % LimbBits)) % 2

\* a / 2^k (k >= 1) rounded to the nearest integer, a tie to the even one;
\* `sticky' says that a stands for a value slightly above a.  It goes up
\* when the half bit is set and the rest is no tie or the quotient is odd.
RoundShift(a, k, sticky) ==
    IF /\ Bit(a, k - 1) = 1
       /\ sticky \/ Bit(a, k) = 1 \/ TrailingZeros(a) < k - 1
    THEN AddBig(ShiftRight(a, k), <<1>>)
    ELSE ShiftRight(a, k)

\* Long division of r by b, for r < b * 2^(hi + 1): the bits lo..hi of the
\* quotient and what is left of r, [q, r].  Bit i is set when t = b * 2^i
\* still fits into what is left.
DivBit(r, t, i) ==
    IF CmpBig(r, t) >= 0
    THEN [q |-> ShiftLeft(<<1>>, i), r |-> SubBig(r, t)]
    ELSE [q |-> <<>>, r |-> r]

JoinBits(high, low) == [q |-> AddBig(high.q, low.q), r |-> low.r]

RECURSIVE DivBits(_, _, _, _)
DivLow(high, b, lo, mid) == JoinBits(high, DivBits(high.r, b, lo, mid))

DivBits(r, b, lo, hi) ==
    IF lo = hi THEN DivBit(r, ShiftLeft(b, lo), lo)
    ELSE DivLow(DivBits(r, b, (lo + hi) \div 2 + 1, hi), b, lo, (lo + hi) \div 2)

\* A float: kind "fin" is (-1)^sign * m * 2^e with m odd (or m = 0, e = 0),
\* m < 2^53, e >= -1074, m * 2^e < 2^1024; kinds "inf" and "nan" as in IEEE.
MantBits == 53
MinExp   == -1074
MaxExp   == 1024

Fin(sign, m, e) ==
    IF m = <<>> THEN [kind |-> "fin", sign |-> sign, m |-> <<>>, e |-> 0]
    ELSE LET z == TrailingZeros(m)
         IN  [kind |-> "fin", sign |-> sign, m |-> ShiftRight(m, z), e |-> e + z]

Inf(sign) == [kind |-> "inf", sign |-> sign, m |-> <<>>, e |-> 0]
NaN       == [kind |-> "nan", sign |-> 0, m |-> <<>>, e |-> 0]

\* the float (-1)^sign * m * 2^e for m < 2^53, infinite when too large
Rounded(sign, m, e) ==
    IF m # <<>> /\ BitLen(m) + e > MaxExp THEN Inf(sign) ELSE Fin(sign, m, e)

\* q * 2^e with the d lowest bits of q rounded away
RoundAt(sign, q, sticky, e, d) ==
    IF d <= 0 THEN Rounded(sign, q, e)
    ELSE Rounded(sign, RoundShift(q, d, sticky), e + d)

\* the float nearest to (-1)^sign * q * 2^e (round to nearest, ties to even,
\* gradual underflow, overflow to infinity); `sticky' says the value is
\* slightly above q, and then some bit of q is rounded away
RoundToFloat(sign, q, sticky, e) ==
    RoundAt(sign, q, sticky, e, Larger(BitLen(q) - MantBits, MinExp - e))

\* the float nearest to (-1)^sign * (n / d) * 2^e for n > 0 and d > 0: n or d
\* is scaled by 2^s to leave a quotient of 55 or 56 bits, which the long
\* division works out together with whether a remainder is left
RoundQuot(sign, qr, e) == RoundToFloat(sign, qr.q, qr.r # <<>>, e)

RoundDivBy(sign, n, d, e, s) ==
    RoundQuot(sign,
              DivBits(IF s >= 0 THEN ShiftLeft(n, s) ELSE n,
                      IF s >= 0 THEN d ELSE ShiftLeft(d, -s),
                      0, MantBits + 2),
              e - s)

RoundDiv(sign, n, d, e) ==
    RoundDivBy(sign, n, d, e, MantBits + 2 + BitLen(d) - BitLen(n))

IsZero(x) == x.kind = "fin" /\ x.m = <<>>

Xor(a, b) == (a + b) % 2

\* x * y
FloatMul(x, y) ==
    IF x.kind = "nan" \/ y.kind = "nan" THEN NaN
    ELSE IF x.kind = "inf" \/ y.kind = "inf"
    THEN (IF IsZero(x) \/ IsZero(y) THEN NaN ELSE Inf(Xor(x.sign, y.sign)))
    ELSE RoundToFloat(Xor(x.sign, y.sign), MulBig(x.m, y.m), FALSE, x.e + y.e)

\* x / y for y # 0.0 (Python raises ZeroDivisionError before dividing by 0.0)
FloatDiv(x, y) ==
    IF x.kind = "nan" \/ y.kind = "nan" THEN NaN
    ELSE IF x.kind = "inf"
    THEN (IF y.kind = "inf" THEN NaN ELSE Inf(Xor(x.sign, y.sign)))
    ELSE IF y.kind = "inf" \/ IsZero(x) THEN Fin(Xor(x.sign, y.sign), <<>>, 0)
    ELSE RoundDiv(Xor(x.sign, y.sign), x.m, y.m, x.e - y.e)

\* the order of |x| and |y| for x, y not nan and not both zero: -1, 0, 1
Mag(u) ==
    IF u.kind = "inf" THEN MaxExp + 1
    ELSE IF u.m = <<>> THEN MinExp - 1
    ELSE BitLen(u.m) + u.e

CmpMag(x, y) ==
    IF Mag(x) < Mag(y) THEN -1
    ELSE IF Mag(x) > Mag(y) THEN 1
    ELSE IF x.kind = "inf" THEN 0
    ELSE CmpBig(ShiftLeft(x.m, x.e - Min(x.e, y.e)),
                ShiftLeft(y.m, y.e - Min(x.e, y.e)))

\* x < y
FloatLess(x, y) ==
    IF x.kind = "nan" \/ y.kind = "nan" THEN FALSE
    ELSE IF IsZero(x) /\ IsZero(y) THEN FALSE
    ELSE IF x.sign # y.sign THEN x.sign = 1
    ELSE CmpMag(x, y) = (IF x.sign = 0 THEN -1 ELSE 1)

\* x <= 0
FloatLeqZero(x) == x.kind # "nan" /\ (IsZero(x) \/ x.sign = 1)

\* a * 10^n for n >= 0
RECURSIVE MulPow10(_, _)
MulPow10(a, n) ==
    IF n = 0 THEN a
    ELSE IF n <= 4 THEN MulSmall(a, Pow10(n))
    ELSE LET half == MulPow10(a, n \div 2)
         IN  IF half = <<>> THEN half ELSE MulPow10(half, n - n \div 2)

\* A JSON number as written.  Dec(sign, m, e) is a literal with a fraction
\* or an exponent, (-1)^sign * m * 10^(-e) for a natural m: json reads it as
\* a float.  IntLit(sign, m, zeros) is a literal of digits only, the digits
\* of m followed by `zeros' zeros: json reads it as an int.
Dec(sign, m, e) == [sign |-> sign, m |-> m, e |-> e, int |-> FALSE]
IntLit(sign, m, zeros) == [sign |-> sign, m |-> m, e |-> -zeros, int |-> TRUE]

\* float(number): the float nearest to the number.  A number of 10^309 or
\* more is beyond every float, one below 10^-325 rounds to zero.  The int
\* -0 is 0, so only a float literal gives -0.0.
FloatOf(dec) ==
    IF dec.m = 0 THEN Fin(IF dec.int THEN 0 ELSE dec.sign, <<>>, 0)
    ELSE IF -dec.e >= 309 THEN Inf(dec.sign)
    ELSE IF dec.e - Digits(dec.m) >= 325 THEN Fin(dec.sign, <<>>, 0)
    ELSE IF dec.e <= 0
    THEN RoundToFloat(dec.sign, MulPow10(Big(dec.m), -dec.e), FALSE, 0)
    ELSE RoundDiv(dec.sign, Big(dec.m), MulPow10(<<1>>, dec.e), 0)

\* an int too large for a float: the conversion overflows, and the field is
\* not a valid float (a float literal that large reads as inf instead)
IntTooLarge(dec) == dec.int /\ FloatOf(dec).kind = "inf"

\* round(x, 1): the float nearest to the tenth nearest to x, a tie between
\* two tenths going to the even one; t is that number of tenths
FloatOfTenths(sign, t) ==
    IF t = <<>> THEN Fin(sign, <<>>, 0) ELSE RoundDiv(sign, t, <<10>>, 0)

round1(x) ==
    IF x.kind # "fin" \/ x.e >= 0 THEN x
    ELSE FloatOfTenths(x.sign, RoundShift(MulSmall(x.m, 10), -x.e, FALSE))

(***************************************************************************)
(* BMI (main.py 114-139).                                                  *)
(***************************************************************************)
category_underweight == "Nedostatochnaya massa"
category_normal      == "Norma"
category_overweight  == "Izbytochnaya massa"
category_obesity_1   == "Ozhirenie I stepeni"
category_obesity_2   == "Ozhirenie II stepeni"
category_obesity_3   == "Ozhirenie III stepeni"

\* the number literals of main.py as floats: each is a float exactly
\* (18.5 is 37 / 2)
Float(n) == Fin(0, Big(n), 0)
f_100  == Float(100)
f_18_5 == Fin(0, Big(37), -1)
f_25   == Float(25)
f_30   == Float(30)
f_35   == Float(35)
f_40   == Float(40)

\* _bmi_category(bmi)
bmi_category(bmi) ==
    IF FloatLess(bmi, f_18_5) THEN category_underweight
    ELSE IF FloatLess(bmi, f_25) THEN category_normal
    ELSE IF FloatLess(bmi, f_30) THEN category_overweight
    ELSE IF FloatLess(bmi, f_35) THEN category_obesity_1
    ELSE IF FloatLess(bmi, f_40) THEN category_obesity_2
    ELSE category_obesity_3

\* Reading the request body as JSON: Python refuses to convert a string of
\* more than 4300 digits to an int, and a body with such an integer literal
\* cannot be parsed.
MaxStrDigits == 4300
IntDigits(dec) == Digits(dec.m) - dec.e
ParsesBody(body) ==
    \A k \in DOMAIN body : ~(body[k].int /\ IntDigits(body[k]) > MaxStrDigits)

\* BMIQuery: both fields are required floats
ValidBMIQuery(body) ==
    /\ {"height_cm", "weight_kg"} \subseteq DOMAIN body
    /\ ~IntTooLarge(body.height_cm)
    /\ ~IntTooLarge(body.weight_kg)

\* the floats the request's numbers are read as
BMIQuery(body) == [k \in DOMAIN body |-> FloatOf(body[k])]

InternalServerError ==
    [status |-> 500, body |-> [detail |-> Text("Internal Server Error")]]

\* the returned {bmi, category} as the response: inf and nan cannot be
\* written as JSON, and the request ends with a 500
bmi_response(bmi, category) ==
    IF bmi.kind # "fin" THEN InternalServerError
    ELSE [status |-> 200, body |-> [bmi |-> bmi, category |-> category]]

\* return {"bmi": round(bmi, 1), "category": _bmi_category(bmi)}
bmi_return(bmi) == bmi_response(round1(bmi), bmi_category(bmi))

\* bmi = data.weight_kg / (h_m * h_m), where sq is h_m * h_m: dividing by a
\* square that underflowed to 0.0 raises ZeroDivisionError
bmi_divide(weight_kg, sq) ==
    IF IsZero(sq) THEN InternalServerError
    ELSE bmi_return(FloatDiv(weight_kg, sq))

\* the handler from `if h_m <= 0' on
bmi_guard(data, h_m) ==
    IF FloatLeqZero(h_m)
    THEN [status |-> 400,
          body   |-> [detail |-> Text("Height must be greater than 0")]]
    ELSE bmi_divide(data.weight_kg, FloatMul(h_m, h_m))

\* the handler on the parsed request: h_m = data.height_cm / 100.0
bmi_handler(data) == bmi_guard(data, FloatDiv(data.height_cm, f_100))

\* the result of POST /api/bmi: [status, body].  The body is parsed, then
\* validated as a BMIQuery, then handed to the handler.
bmi_result(body) ==
    IF ~ParsesBody(body)
    THEN [status |-> 400,
          body   |-> [detail |-> Text("There was an error parsing the body")]]
    ELSE IF ~ValidBMIQuery(body)
    THEN [status |-> 422, body |-> ValidationError]
    ELSE bmi_handler(BMIQuery(body))

\* request bodies of POST /api/bmi: the heights -170, 0, 100, 104, 110, 170,
\* 200 with the weights -70, 0, 0.35, 27.04, 48.40, 70, 99.9; the heights
\* -0, -0.0, 1e3, 1e-400, 1e400, 1 with 400 zeros, 1 with 4299 zeros, 1 with
\* 4300 zeros, 1e-170, 2e-160, 1e-323 with weight 70; the weights -0, -0.0,
\* 7e1, 140, 1e400, 1 with 400 zeros, -1 with 5000 zeros with height 170;
\* and a body without weight_kg
Heights ==
    {IntLit(1, 170, 0), IntLit(0, 0, 0), IntLit(0, 100, 0), IntLit(0, 104, 0),
     IntLit(0, 110, 0), IntLit(0, 170, 0), IntLit(0, 200, 0)}
Weights ==
    {IntLit(1, 70, 0), IntLit(0, 0, 0), Dec(0, 35, 2), Dec(0, 2704, 2),
     Dec(0, 4840, 2), IntLit(0, 70, 0), Dec(0, 999, 1)}
EdgeHeights ==
    {IntLit(1, 0, 0), Dec(1, 0, 1), Dec(0, 1, -3), Dec(0, 1, 400),
     Dec(0, 1, -400), IntLit(0, 1, 400), IntLit(0, 1, 4299),
     IntLit(0, 1, 4300), Dec(0, 1, 170), Dec(0, 2, 160), Dec(0, 1, 323)}
EdgeWeights ==
    {IntLit(1, 0, 0), Dec(1, 0, 1), Dec(0, 7, -1), IntLit(0, 140, 0),
     Dec(0, 1, -400), IntLit(0, 1, 400), IntLit(1, 1, 5000)}
BMIBodies ==
    {[height_cm |-> h, weight_kg |-> w] : h \in Heights, w \in Weights}
      \cup {[height_cm |-> h, weight_kg |-> IntLit(0, 70, 0)] :
               h \in EdgeHeights}
      \cup {[height_cm |-> IntLit(0, 170, 0), weight_kg |-> w] :
               w \in EdgeWeights}
      \cup {[height_cm |-> IntLit(0, 170, 0)]}

\* POST /api/bmi on each of these bodies, worked out once: what the handler
\* received and what it answered
bmi_exchanges ==
    {[query |-> body, data |-> BMIQuery(body), result |-> bmi_result(body)] :
        body \in BMIBodies}

(***************************************************************************)
(* Request and response shapes (schemas.py).                               *)
(***************************************************************************)
\* a required `str` field: present and not null
HasStr(body, k) == k \in DOMAIN body /\ body[k] # None

\* Testimonial.rating without its range: Field(5) instead of Field(5, ge=1, le=5)
ValidTestimonialAnyRating(body) ==
    HasStr(body, "name") /\ HasStr(body, "text")

\* Testimonial: name and text required, rating in 1..5 when given
ValidTestimonial(body) ==
    /\ HasStr(body, "name")
    /\ HasStr(body, "text")
    /\ "rating" \in DOMAIN body => (body.rating >= 1 /\ body.rating <= 5)

\* Testimonial with rating defaulting to 1 instead of 5
TestimonialDefault1(body) ==
    [name      |-> body.name,
     procedure |-> Get(body, "procedure", None),
     rating    |-> Get(body, "rating", 1),
     text      |-> body.text,
     city      |-> Get(body, "city", None)]

\* the validated Testimonial, defaults filled in
Testimonial(body) ==
    [name      |-> body.name,
     procedure |-> Get(body, "procedure", None),
     rating    |-> Get(body, "rating", 5),
     text      |-> body.text,
     city      |-> Get(body, "city", None)]

\* EmailStr: the addresses of the request bodies below that are well formed
IsEmail(s) == s \in {"anna@example.com"}

\* ContactMessage: name and message required, email well formed when given
ValidContactMessage(body) ==
    /\ HasStr(body, "name")
    /\ HasStr(body, "message")
    /\ ("email" \in DOMAIN body /\ body.email # None) => IsEmail(body.email)

\* the validated ContactMessage, defaults filled in
ContactMessage(body) ==
    [name    |-> body.name,
     email   |-> Get(body, "email", None),
     phone   |-> Get(body, "phone", None),
     message |-> body.message]

\* Surgery, the response model of GET /api/surgeries: name and type are
\* required strings
ValidSurgery(item) == item.name # None /\ item.type # None

(***************************************************************************)
(* Request inputs.                                                         *)
(***************************************************************************)
TestimonialBodies ==
    {[name |-> "Anna", text |-> "Great"],
     [name |-> "Anna", text |-> "Great", rating |-> 1],
     [name |-> "Ivan", text |-> "Thanks", rating |-> 5,
      procedure |-> "sleeve", city |-> "Kazan"],
     [name |-> "Anna", text |-> "Great", rating |-> 6],
     [name |-> "Anna", text |-> "Great", rating |-> 0],
     [text |-> "Great"],
     [name |-> None, text |-> "Great", rating |-> 5]}

ContactBodies ==
    {[name |-> "Anna", message |-> "Call me"],
     [name |-> "Ivan", message |-> "Hello", email |-> "anna@example.com",
      phone |-> "+7900"],
     [name |-> "Ivan", message |-> "Hello", email |-> "not-an-email"],
     [name |-> "Anna"]}

\* the query string of the two list endpoints: limit omitted, or an int
LimitQueries == {<<>>, [limit |-> -1], [limit |-> 0], [limit |-> 1]}

\* the text of an exception raised by the store driver, as its characters
ErrShort == <<"t", "i", "m", "e", "o", "u", "t">>
ErrLong  == [i \in 1..60 |-> IF i % 2 = 1 THEN "e" ELSE "r"]

\* what one call against the store does: it works, or it raises
StoreOutcomes == {"ok", "short", "long"}
\* the same, for the handlers that pass the text on whole
CallOutcomes == {"ok", "long"}
ErrorText(outcome) == IF outcome = "short" THEN ErrShort ELSE ErrLong

(***************************************************************************)
(* The document store behind database.py.                                  *)
(***************************************************************************)
Collections == {"surgery", "testimonial", "beforeafter", "contactmessage"}

EmptyStore == [c \in Collections |-> <<>>]

StoreSize(s) ==
    Len(s["surgery"]) + Len(s["testimonial"])
      + Len(s["beforeafter"]) + Len(s["contactmessage"])

\* create_document(collection, data): the store after the insert
create_document(s, collection, data) ==
    [s EXCEPT ![collection] = Append(@, data)]

\* the identifier create_document returns
inserted_id(s) == StoreSize(s) + 1

\* get_documents(collection, **kwargs): up to kwargs.limit documents in
\* insertion order; all of them when no limit is given
get_documents(s, collection, kwargs) ==
    IF "limit" \notin DOMAIN kwargs THEN s[collection]
    ELSE SubSeq(s[collection], 1,
                Min(Max(kwargs.limit, 0), Len(s[collection])))

\* names of the database's other collections
OtherNames ==
    <<"audit", "sessions", "users", "logs", "media", "pages", "tags",
      "drafts", "events", "jobs", "locks", "stats">>

AppNames(s) ==
    (IF s["surgery"] # <<>> THEN <<"surgery">> ELSE <<>>)
      \o (IF s["testimonial"] # <<>> THEN <<"testimonial">> ELSE <<>>)
      \o (IF s["beforeafter"] # <<>> THEN <<"beforeafter">> ELSE <<>>)
      \o (IF s["contactmessage"] # <<>> THEN <<"contactmessage">> ELSE <<>>)

\* db.list_collection_names()
list_collection_names(s, n) == AppNames(s) \o SubSeq(OtherNames, 1, n)

\* documents found in the store when the process starts
SurgeryDoc1 ==
    [name |-> "Sleeve", type |-> "bariatric", description |-> "Stored"]
SurgeryDoc2 == [name |-> "Hernia", type |-> "general"]
SurgeryNoName == [type |-> "general", description |-> "Unnamed"]
OldTestimonial == [name |-> "Olga", text |-> "Fine"]
CaseDoc ==
    [patient_code |-> "P1", procedure |-> "sleeve", weight_before |-> 120,
     weight_after |-> 80]

StoreA ==
    [EmptyStore EXCEPT !["surgery"] = <<SurgeryDoc1>>,
                       !["testimonial"] = <<OldTestimonial>>]
StoreB == [EmptyStore EXCEPT !["surgery"] = <<SurgeryNoName>>]
StoreC ==
    [EmptyStore EXCEPT !["surgery"] = <<SurgeryDoc2>>,
                       !["beforeafter"] = <<CaseDoc>>]

EnvUnset == [DATABASE_URL |-> None, DATABASE_NAME |-> None]
EnvSet   == [DATABASE_URL |-> "mongodb://db", DATABASE_NAME |-> "surgeon"]
EnvEmpty == [DATABASE_URL |-> "", DATABASE_NAME |-> ""]

\* the deployments the process may start in: the store handle, the
\* environment, what the store holds, how many other collections it has
Deployment(d, e, s, n) == [db |-> d, environ |-> e, store |-> s, other |-> n]

Deployments ==
    {Deployment(None, EnvUnset, EmptyStore, 0),
     Deployment("connected", EnvSet, EmptyStore, 0),
     Deployment("connected", EnvSet, StoreA, Min(MaxOther, Len(OtherNames))),
     Deployment("connected", EnvEmpty, StoreB, 0),
     Deployment("connected", EnvSet, StoreC, Min(MaxOther, Len(OtherNames)))}

(***************************************************************************)
(* Projections of stored documents (main.py 36-43, 67-76, 98-109).         *)
(***************************************************************************)
SurgeryItem(i) ==
    [name        |-> Get(i, "name", None),
     type        |-> Get(i, "type", None),
     description |-> Get(i, "description", None)]

TestimonialItem(i) ==
    [name      |-> Get(i, "name", None),
     procedure |-> Get(i, "procedure", None),
     rating    |-> Get(i, "rating", 5),
     text      |-> Get(i, "text", None),
     city      |-> Get(i, "city", None)]

BeforeAfterItem(i) ==
    [patient_code     |-> Get(i, "patient_code", None),
     procedure        |-> Get(i, "procedure", None),
     weight_before    |-> Get(i, "weight_before", None),
     weight_after     |-> Get(i, "weight_after", None),
     description      |-> Get(i, "description", None),
     image_before_url |-> Get(i, "image_before_url", None),
     image_after_url  |-> Get(i, "image_after_url", None)]

\* the list comprehensions over the fetched documents
SurgeryItems(docs) == [k \in 1..Len(docs) |-> SurgeryItem(docs[k])]
TestimonialItems(docs) == [k \in 1..Len(docs) |-> TestimonialItem(docs[k])]
BeforeAfterItems(docs) == [k \in 1..Len(docs) |-> BeforeAfterItem(docs[k])]

\* the curated default list (main.py 51-58)
DefaultSurgeries ==
    <<[name |-> "Laparoskopicheskoe rukavnoe gastroshuntirovanie",
       type |-> "bariatric",
       description |-> "Snizhenie vesa za schyot umensheniya obyoma zheludka"],
      [name |-> "Gastroshuntirovanie po Ru",
       type |-> "bariatric",
       description |-> "Kombinirovannaya metodika dlya stoikogo snizheniya massy tela"],
      [name |-> "Ustanovka vnutrizheludochnogo ballona",
       type |-> "bariatric",
       description |-> "Vremennaya metodika dlya korrektsii vesa"],
      [name |-> "Kholetsistektomiya (udalenie zhelchnogo puzyrya)",
       type |-> "general",
       description |-> "Laparoskopicheskoe udalenie pri zhelchnokamennoi bolezni"],
      [name |-> "Gryzhesechenie (pakhovye, pupochnye, ventralnye)",
       type |-> "general",
       description |-> "Sovremennye setchatye implanty i nadyozhnaya fiksatsiya"],
      [name |-> "Appendektomiya",
       type |-> "general",
       description |-> "Maloinvazivnoe udalenie appendiksa"]>>

(***************************************************************************)
(* The state after start-up: the store is configured or not, once.         *)
(***************************************************************************)
Init ==
    /\ \E d \in Deployments :
          /\ db = d.db
          /\ environ = d.environ
          /\ store = d.store
          /\ otherCollections = d.other
    /\ response = [op |-> "start", status |-> 0]
    /\ calls = 0
    /\ created = {}

(***************************************************************************)
(* The handlers.                                                           *)
(***************************************************************************)
\* GET /
read_root ==
    /\ response' = [op |-> "read_root", status |-> 200,
                    body |-> [message |-> "Surgeon site backend is running"]]
    /\ calls' = 0
    /\ UNCHANGED <<db, environ, store, otherCollections, created>>

\* what list_surgeries returns before the response model is applied
surgery_items(outcome) ==
    IF db = None \/ outcome # "ok" THEN DefaultSurgeries
    ELSE LET items == SurgeryItems(get_documents(store, "surgery", <<>>))
         IN  IF items # <<>> THEN items ELSE DefaultSurgeries

\* GET /api/surgeries, response_model=List[Surgery]
list_surgeries(outcome) ==
    /\ db = None => outcome = "ok"
    /\ LET items == surgery_items(outcome)
       IN  response' =
             IF \A k \in 1..Len(items) : ValidSurgery(items[k])
             THEN [op |-> "list_surgeries", status |-> 200, items |-> items,
                   outcome |-> outcome]
             ELSE [op |-> "list_surgeries", status |-> 500,
                   body |-> [detail |-> Text("Internal Server Error")],
                   outcome |-> outcome]
    /\ calls' = IF db = None THEN 0 ELSE 1
    /\ UNCHANGED <<db, environ, store, otherCollections, created>>

\* a list response: status 200 with the items, or status 500 with the text
\* of the exception
Listed(items) == [status |-> 200, items |-> items]
Failed(e)     == [status |-> 500, body |-> [detail |-> e]]

\* get_testimonials without the `db is None` early return: get_documents
\* raises when there is no store
get_testimonials_result_nocheck(q, outcome) ==
    IF db = None THEN Failed(Text("Database not available"))
    ELSE IF outcome # "ok" THEN Failed(ErrorText(outcome))
    ELSE Listed(TestimonialItems(
                        get_documents(store, "testimonial",
                                      [limit |-> Get(q, "limit", 12)])))

\* GET /api/testimonials?limit=
get_testimonials_result(q, outcome) ==
    IF db = None THEN Listed(<<>>)
    ELSE IF outcome # "ok" THEN Failed(ErrorText(outcome))
    ELSE Listed(TestimonialItems(
                        get_documents(store, "testimonial",
                                      [limit |-> Get(q, "limit", 12)])))

get_testimonials(q, outcome) ==
    /\ db = None => outcome = "ok"
    /\ response' = [op |-> "get_testimonials",
                    limit |-> Get(q, "limit", 12)]
                     @@ get_testimonials_result(q, outcome)
    /\ calls' = IF db = None THEN 0 ELSE 1
    /\ UNCHANGED <<db, environ, store, otherCollections, created>>

\* GET /api/before-after?limit=
get_before_after_result(q, outcome) ==
    IF db = None THEN Listed(<<>>)
    ELSE IF outcome # "ok" THEN Failed(ErrorText(outcome))
    ELSE Listed(BeforeAfterItems(
                        get_documents(store, "beforeafter",
                                      [limit |-> Get(q, "limit", 12)])))

get_before_after(q, outcome) ==
    /\ db = None => outcome = "ok"
    /\ response' = [op |-> "get_before_after",
                    limit |-> Get(q, "limit", 12)]
                     @@ get_before_after_result(q, outcome)
    /\ calls' = IF db = None THEN 0 ELSE 1
    /\ UNCHANGED <<db, environ, store, otherCollections, created>>

\* what a create handler did: its response, the store calls it made, and
\* whether create_document(collection, doc) went through
Outcome(status, body, n, insert, collection, doc) ==
    [status |-> status, body |-> body, calls |-> n, insert |-> insert,
     collection |-> collection, doc |-> doc]

\* POST /api/testimonials: the body is validated before the handler runs
create_testimonial_result(body, outcome) ==
    IF ~ValidTestimonial(body)
    THEN Outcome(422, ValidationError, 0, FALSE, "testimonial", <<>>)
    ELSE IF db = None
    THEN Outcome(500, [detail |-> Text("Database not available")], 0, FALSE,
                 "testimonial", <<>>)
    ELSE IF outcome # "ok"
    THEN Outcome(500, [detail |-> ErrorText(outcome)], 1, FALSE,
                 "testimonial", <<>>)
    ELSE Outcome(200, [id |-> inserted_id(store), ok |-> TRUE], 1, TRUE,
                 "testimonial", Testimonial(body))

create_testimonial(body, outcome) ==
    LET r == create_testimonial_result(body, outcome) IN
    /\ (db = None \/ ~ValidTestimonial(body)) => outcome = "ok"
    /\ r.insert => StoreSize(store) < MaxDocs
    /\ store' = IF r.insert THEN create_document(store, r.collection, r.doc)
                ELSE store
    /\ response' = [op |-> "create_testimonial", status |-> r.status,
                    body |-> r.body, payload |-> body]
    /\ calls' = r.calls
    /\ created' = IF r.status = 200 THEN created \cup {body} ELSE created
    /\ UNCHANGED <<db, environ, otherCollections>>

\* POST /api/bmi
bmi_calc(body) ==
    /\ LET x == CHOOSE e \in bmi_exchanges : e.query = body
       IN  response' = [op |-> "bmi_calc", status |-> x.result.status,
                        body |-> x.result.body, query |-> body,
                        data |-> x.data]
    /\ calls' = 0
    /\ UNCHANGED <<db, environ, store, otherCollections, created>>

\* send_contact without the `db is None` branch: create_document raises
send_contact_result_nocheck(body, outcome) ==
    IF ~ValidContactMessage(body)
    THEN Outcome(422, ValidationError, 0, FALSE, "contactmessage", <<>>)
    ELSE IF db = None
    THEN Outcome(500, [detail |-> Text("Database not available")], 0, FALSE,
                 "contactmessage", <<>>)
    ELSE IF outcome # "ok"
    THEN Outcome(500, [detail |-> ErrorText(outcome)], 1, FALSE,
                 "contactmessage", <<>>)
    ELSE Outcome(200, [ok |-> TRUE, id |-> inserted_id(store), stored |-> TRUE],
                 1, TRUE, "contactmessage", ContactMessage(body))

\* send_contact storing into the testimonial collection
send_contact_result_testimonial(body, outcome) ==
    IF ~ValidContactMessage(body)
    THEN Outcome(422, ValidationError, 0, FALSE, "contactmessage", <<>>)
    ELSE IF db = None
    THEN Outcome(200, [ok |-> TRUE, stored |-> FALSE], 0, FALSE,
                 "contactmessage", <<>>)
    ELSE IF outcome # "ok"
    THEN Outcome(500, [detail |-> ErrorText(outcome)], 1, FALSE,
                 "contactmessage", <<>>)
    ELSE Outcome(200, [ok |-> TRUE, id |-> inserted_id(store), stored |-> TRUE],
                 1, TRUE, "testimonial", ContactMessage(body))

\* POST /api/contact: the body is validated before the handler runs
send_contact_result(body, outcome) ==
    IF ~ValidContactMessage(body)
    THEN Outcome(422, ValidationError, 0, FALSE, "contactmessage", <<>>)
    ELSE IF db = None
    THEN Outcome(200, [ok |-> TRUE, stored |-> FALSE], 0, FALSE,
                 "contactmessage", <<>>)
    ELSE IF outcome # "ok"
    THEN Outcome(500, [detail |-> ErrorText(outcome)], 1, FALSE,
                 "contactmessage", <<>>)
    ELSE Outcome(200, [ok |-> TRUE, id |-> inserted_id(store), stored |-> TRUE],
                 1, TRUE, "contactmessage", ContactMessage(body))

send_contact(body, outcome) ==
    LET r == send_contact_result(body, outcome) IN
    /\ (db = None \/ ~ValidContactMessage(body)) => outcome = "ok"
    /\ r.insert => StoreSize(store) < MaxDocs
    /\ store' = IF r.insert THEN create_document(store, r.collection, r.doc)
                ELSE store
    /\ response' = [op |-> "send_contact", status |-> r.status,
                    body |-> r.body, payload |-> body]
    /\ calls' = r.calls
    /\ UNCHANGED <<db, environ, otherCollections, created>>

\* str(e)[:50] without the slice
error_text_unbounded(e) == e

\* str(e)[:50]
error_text(e) == Slice(e, 50)

\* collections[:10]
first_collections(names) == Slice(names, 10)

\* the truth of os.getenv(name): an unset variable and an empty one are false
Truthy(value) == value # None /\ value # ""

\* the status object of GET /test
test_database_body(outcome) ==
    IF db = None
    THEN [backend           |-> "Running",
          database          |-> [text |-> "Available but not initialized",
                                 error |-> <<>>],
          database_url      |-> None,
          database_name     |-> None,
          connection_status |-> "Not Connected",
          collections       |-> <<>>]
    ELSE [backend           |-> "Running",
          database          |->
              IF outcome = "ok"
              THEN [text |-> "Connected & Working", error |-> <<>>]
              ELSE [text  |-> "Connected but Error: ",
                    error |-> error_text(ErrorText(outcome))],
          database_url      |->
              IF Truthy(environ.DATABASE_URL) THEN "Set" ELSE "Not Set",
          database_name     |->
              IF Truthy(environ.DATABASE_NAME) THEN environ.DATABASE_NAME
              ELSE "Not Set",
          connection_status |-> "Connected",
          collections       |->
              IF outcome = "ok"
              THEN first_collections(
                       list_collection_names(store, otherCollections))
              ELSE <<>>]

\* GET /test
test_database(outcome) ==
    /\ db = None => outcome = "ok"
    /\ response' = [op |-> "test_database", status |-> 200,
                    body |-> test_database_body(outcome), outcome |-> outcome]
    /\ calls' = IF db = None THEN 0 ELSE 1
    /\ UNCHANGED <<db, environ, store, otherCollections, created>>

Next ==
    \/ read_root
    \/ \E outcome \in CallOutcomes : list_surgeries(outcome)
    \/ \E q \in LimitQueries, outcome \in CallOutcomes :
           get_testimonials(q, outcome)
    \/ \E body \in TestimonialBodies, outcome \in CallOutcomes :
           create_testimonial(body, outcome)
    \/ \E q \in LimitQueries, outcome \in CallOutcomes :
           get_before_after(q, outcome)
    \/ \E body \in BMIBodies : bmi_calc(body)
    \/ \E body \in ContactBodies, outcome \in CallOutcomes :
           send_contact(body, outcome)
    \/ \E outcome \in StoreOutcomes : test_database(outcome)

Spec == Init /\ [][Next]_vars

(***************************************************************************)
(* Properties.                                                             *)
(***************************************************************************)
IsOp(op) == response.op = op

\* C1: for height_cm > 0 and weight_kg >= 0 the category of a BMI response
\* is the band of the bmi value returned in that response (the value
\* rounded to one decimal); a returned 25.0 is "Izbytochnaya massa".
C1_CategoryIsBandOfReturnedBmi ==
    (/\ IsOp("bmi_calc")
     /\ response.status = 200
     /\ FloatLess(Float(0), response.data.height_cm)
     /\ ~FloatLess(response.data.weight_kg, Float(0)))
    => response.body.category = bmi_category(response.body.bmi)

\* C2: Compute BMI answers 400 exactly when height_cm <= 0; for every
\* height_cm > 0 it succeeds with {bmi, category}; it never calls the store.
C2_Bmi400IffHeightNotPositive ==
    (IsOp("bmi_calc") /\ ValidBMIQuery(response.query))
    => /\ (response.status = 400) <=> FloatLeqZero(response.data.height_cm)
       /\ FloatLess(Float(0), response.data.height_cm)
            => (response.status = 200
                /\ DOMAIN response.body = {"bmi", "category"})
       /\ calls = 0

\* C3: List surgeries returns exactly the six defaults when the store is
\* absent, the fetch raises, or the fetch returns nothing; otherwise it
\* returns the projection of the fetched documents, in fetch order, with
\* none of the defaults among them.
C3_DefaultsOrProjection ==
    IsOp("list_surgeries")
    => /\ response.status = 200
       /\ IF db = None \/ response.outcome # "ok" \/ store["surgery"] = <<>>
          THEN response.items = DefaultSurgeries
          ELSE /\ response.items = SurgeryItems(store["surgery"])
               /\ \A k \in 1..Len(response.items), j \in 1..Len(DefaultSurgeries) :
                      response.items[k] # DefaultSurgeries[j]

\* C4: List surgeries never surfaces an error: in every store state the
\* response is a successful list of Surgery records.
C4_ListSurgeriesNeverFails ==
    IsOp("list_surgeries")
    => /\ response.status = 200
       /\ \A k \in 1..Len(response.items) : ValidSurgery(response.items[k])

RatingOutOfRange(body) ==
    "rating" \in DOMAIN body /\ (body.rating < 1 \/ body.rating > 5)

\* C5: a Create testimonial request whose rating is outside 1..5 is answered
\* with a 4xx status, makes no store call and leaves the store unchanged,
\* whether the store is configured or absent; it is never answered 5xx.
C5_BadRatingRejectedBeforeStore ==
    [][(response'.op = "create_testimonial"
        /\ RatingOutOfRange(response'.payload))
       => /\ response'.status >= 400 /\ response'.status < 500
          /\ calls' = 0
          /\ store' = store]_vars

C5_Witness ==
    /\ IsOp("create_testimonial")
    /\ db # None
    /\ "rating" \in DOMAIN response.payload
    /\ response.payload.rating = 6
    /\ response.status = 422

\* C6: with no store configured, Submit contact message answers a valid
\* request {ok: true, stored: false} without an id and without a store
\* call, and answers no request, valid or not, with a 5xx status.
C6_ContactWithoutStore ==
    (IsOp("send_contact") /\ db = None)
    => /\ response.status < 500
       /\ calls = 0
       /\ ValidContactMessage(response.payload)
            => (response.status = 200
                /\ response.body = [ok |-> TRUE, stored |-> FALSE])

C6_Witness ==
    /\ IsOp("send_contact")
    /\ db = None
    /\ ValidContactMessage(response.payload)
    /\ response.status = 200
    /\ "id" \notin DOMAIN response.body

\* the list entry a created payload must read back as
ReadBack(P) ==
    [name      |-> P.name,
     procedure |-> IF "procedure" \in DOMAIN P THEN P.procedure ELSE None,
     rating    |-> IF "rating" \in DOMAIN P THEN P.rating ELSE 5,
     text      |-> P.text,
     city      |-> IF "city" \in DOMAIN P THEN P.city ELSE None]

\* C7: with a working store, every payload a Create testimonial call has
\* acknowledged is among the entries of any later successful List
\* testimonials call whose limit covers the stored documents, field for
\* field, with rating 5 when the payload omitted it.
C7_RoundTrip ==
    (/\ IsOp("get_testimonials")
     /\ db # None
     /\ response.status = 200
     /\ response.limit >= Len(store["testimonial"]))
    => \A P \in created :
           \E k \in 1..Len(response.items) : response.items[k] = ReadBack(P)

C7_Witness ==
    /\ IsOp("get_testimonials")
    /\ response.status = 200
    /\ response.limit >= Len(store["testimonial"])
    /\ Len(response.items) >= 2
    /\ \E P \in created : "rating" \notin DOMAIN P

\* C8: GET /test always answers 200 with backend "Running"; when the
\* collection listing raises, the database field carries exactly the first
\* 50 characters of the error text; collections holds at most 10 names.
C8_ProbeNeverFails ==
    IsOp("test_database")
    => /\ response.status = 200
       /\ response.body.backend = "Running"
       /\ Len(response.body.collections) <= 10
       /\ (db # None /\ response.outcome # "ok")
            => LET e == ErrorText(response.outcome)
               IN  /\ response.body.database.text = "Connected but Error: "
                   /\ Len(response.body.database.error) <= 50
                   /\ response.body.database.error
                        = [k \in 1..(IF Len(e) < 50 THEN Len(e) ELSE 50) |-> e[k]]

C8_Witness ==
    /\ IsOp("test_database")
    /\ db # None
    /\ response.outcome = "long"
    /\ Len(response.body.database.error) = 50
    /\ Len(ErrorText(response.outcome)) > 50

\* C9: with no store configured, List testimonials and List before/after
\* answer 200 with an empty list for every limit and make no store call.
C9_EmptyListsWithoutStore ==
    (db = None /\ (IsOp("get_testimonials") \/ IsOp("get_before_after")))
    => /\ response.status = 200
       /\ response.items = <<>>
       /\ calls = 0

C9_Witness ==
    /\ db = None
    /\ IsOp("get_testimonials")
    /\ response.limit = -1
    /\ response.status = 200
    /\ response.items = <<>>

ReadOps ==
    {"read_root", "list_surgeries", "get_testimonials", "get_before_after",
     "bmi_calc", "test_database"}

\* store' is store with exactly one document added to collection c
AddsOneTo(c) ==
    /\ Len(store'[c]) = Len(store[c]) + 1
    /\ SubSeq(store'[c], 1, Len(store[c])) = store[c]
    /\ \A o \in Collections \ {c} : store'[o] = store[o]

\* what every request does to the store, but for Submit contact message
FrameOfRequests ==
    /\ calls' <= 1
    /\ response'.op \in ReadOps => store' = store
    /\ (response'.op = "create_testimonial" /\ response'.status = 200)
         => AddsOneTo("testimonial")
    /\ response'.status >= 400 => store' = store

\* C10 as stated: every request calls the store at most once; the read
\* operations and the probes change nothing; a successful Create testimonial
\* adds exactly one document to "testimonial" and a successful Submit
\* contact message exactly one to "contactmessage", nothing else changing;
\* a request that ends in an error inserts nothing.
C10_Original ==
    [][/\ FrameOfRequests
       /\ (response'.op = "send_contact" /\ response'.status = 200)
            => AddsOneTo("contactmessage")]_vars

\* C10 amended: as above, but a successful Submit contact message adds its
\* one document only when it reports stored = true; when it reports
\* stored = false (no store configured) it changes nothing.
C10_Amended ==
    [][/\ FrameOfRequests
       /\ (response'.op = "send_contact" /\ response'.status = 200)
            => IF response'.body.stored
               THEN AddsOneTo("contactmessage")
               ELSE store' = store]_vars

C10_Witness ==
    /\ IsOp("send_contact")
    /\ response.status = 200
    /\ response.body.stored
    /\ Len(store["contactmessage"]) = 1
    /\ Len(store["testimonial"]) = 1

====
